---- MODULE Spec2Model ----
(***************************************************************************)
(* A model of the crush data-model and streaming core:                     *)
(*   src/src/data/value.rs       Value: to_string, cast, Hash, Eq, Ord     *)
(*   src/src/lib/stream/uniq.rs  the uniq operator                         *)
(*   src/src/lib/stream/zip.rs   the zip operator                          *)
(*   src/src/stream_printer.rs   the table renderer                        *)
(*                                                                         *)
(* Texts are sequences of one-character strings.  A Value is a record      *)
(* [tag, val]; a ValueType is a record [tag, sub] where sub is the nested  *)
(* schema (a sequence of type tags) of a stream or table type.             *)
(***************************************************************************)
EXTENDS Integers, Sequences, FiniteSets, TLC

VARIABLES
    \* ---- Value::cast exercised on one value (SpecCast)
    cpc, cIn, cTo, cRes, cBack,
    \* ---- Hash / PartialEq / PartialOrd exercised on a pair (SpecCmp)
    kpc, kA, kB, kEq, kHashA, kHashB, kOrd,
    \* ---- uniq (SpecUniq)
    upc, uArg, uIdx, uTypes, uAll, uInput, uClosed, uSeen, uOut, uOutType, uOutOpen,
    uLog, uReports,
    \* ---- zip (SpecZip)
    zpc, zLenA, zLenB, zFirst, zSecond, zSentA, zSentB, zFirstClosed, zSecondClosed,
    zR1, zR2, zOut, zOutType, zOutOpen, zReads1, zReads2, zSends, zSendFailed,
    \* ---- renderer print_internal (SpecPrint)
    ppc, pTypes, pHasName, pHasTable, pRead, pData, pBatches,
    \* ---- renderer, the lines printed for one stream (SpecRender)
    rpc, rTypes, rRows, rOut

castVars == <<cpc, cIn, cTo, cRes, cBack>>
cmpVars == <<kpc, kA, kB, kEq, kHashA, kHashB, kOrd>>
uniqVars == <<upc, uArg, uIdx, uTypes, uAll, uInput, uClosed, uSeen, uOut, uOutType,
              uOutOpen, uLog, uReports>>
zipVars == <<zpc, zLenA, zLenB, zFirst, zSecond, zSentA, zSentB, zFirstClosed,
             zSecondClosed, zR1, zR2, zOut, zOutType, zOutOpen, zReads1, zReads2, zSends,
             zSendFailed>>
printVars == <<ppc, pTypes, pHasName, pHasTable, pRead, pData, pBatches>>
renderVars == <<rpc, rTypes, rRows, rOut>>
vars == <<castVars, cmpVars, uniqVars, zipVars, printVars, renderVars>>

----------------------------------------------------------------------------
(* Bounds of the model *)

\* longest text a cast input carries
MaxTextLen == 3
\* longest text of a compared / hashed value (besides the listed paths)
MaxCmpLen == 2
\* longest input stream of uniq
MaxRows == 3
\* longest input stream of zip
MaxZip == 3
\* most rows the renderer reads from one stream
MaxPrintRows == 100
\* integers range over -MaxInt .. MaxInt
MaxInt == 8
\* longest stream whose lines are rendered
MaxRenderRows == 2

----------------------------------------------------------------------------
(* Texts *)

\* std::cmp::max, std::cmp::min
Max(a, b) == IF a >= b THEN a ELSE b
Min(a, b) == IF a <= b THEN a ELSE b

SeqsUpTo(S, n) == UNION {[1..k -> S] : k \in 0..n}

Digits == <<"0", "1", "2", "3", "4", "5", "6", "7", "8", "9">>

IsDigit(c) == \E d \in 1..10 : Digits[d] = c

DigitVal(c) == (CHOOSE d \in 1..10 : Digits[d] = c) - 1

\* i128's Display: decimal, "-" for negatives, no leading zeros
RECURSIVE NatToStr(_)
NatToStr(n) == IF n < 10 THEN <<Digits[n + 1]>>
               ELSE NatToStr(n \div 10) \o <<Digits[(n % 10) + 1]>>

IntToStr(i) == IF i < 0 THEN <<"-">> \o NatToStr(-i) ELSE NatToStr(i)

\* str::parse::<i128>: an optional sign, then one or more decimal digits
\* (the range check of i128 is beyond every text of the model)
RECURSIVE ParseDigits(_, _)
ParseDigits(s, acc) == IF s = <<>> THEN acc
                       ELSE ParseDigits(Tail(s), 10 * acc + DigitVal(Head(s)))

ParseI128(s) ==
    LET body == IF s # <<>> /\ Head(s) \in {"+", "-"} THEN Tail(s) ELSE s
    IN  IF body = <<>> \/ \E i \in 1..Len(body) : ~IsDigit(body[i])
        THEN [ok |-> FALSE, val |-> 0]
        ELSE [ok |-> TRUE,
              val |-> IF Head(s) = "-" THEN -ParseDigits(body, 0)
                      ELSE ParseDigits(body, 0)]

----------------------------------------------------------------------------
(* ValueType and Value *)

TypeTags == {"Text", "Integer", "Time", "Duration", "Field", "Glob", "Regex", "Op",
             "Command", "Closure", "Stream", "File", "Rows", "Row", "List", "Dict",
             "Env", "Bool", "Float", "Empty", "Binary", "Type"}

\* a ValueType: the tag and, for stream and table types, the nested schema
T(tag) == [tag |-> tag, sub |-> <<>>]
TSub(tag, schema) == [tag |-> tag, sub |-> schema]

\* a Value: the variant and its payload
V(tag, val) == [tag |-> tag, val |-> val]

NoValue == V("None", <<>>)

\* a path byte that is no valid unicode text
InvalidByte == "\\xFF"

\* Value::value_type: the tag; stream and table types carry the schema read
\* from the payload
value_type(v) ==
    CASE v.tag = "Stream"       -> TSub("Stream", v.val)
      [] v.tag = "Rows"         -> TSub("Rows", v.val)
      [] v.tag = "Struct"       -> T("Row")
      [] v.tag = "BinaryReader" -> T("Binary")
      [] OTHER                  -> T(v.tag)

\* ValueType::is_hashable
is_hashable(t) ==
    t.tag \in {"Text", "Integer", "Time", "Duration", "Field", "Glob", "Regex", "Op",
               "Command", "File", "Bool", "Empty", "Type"}

\* ValueType's Display for the types a type value of the model names
TypeName(t) ==
    CASE t.tag = "Text" -> <<"t", "e", "x", "t">>
      [] t.tag = "Bool" -> <<"b", "o", "o", "l">>
      [] t.tag = "File" -> <<"f", "i", "l", "e">>
      [] t.tag = "Glob" -> <<"g", "l", "o", "b">>
      [] OTHER          -> <<"?">>

NamedTypes == {T("Text"), T("Bool"), T("File"), T("Glob")}

\* value_type_parser::parse
ParseType(s) ==
    IF \E t \in NamedTypes : TypeName(t) = s
    THEN [ok |-> TRUE, val |-> CHOOSE t \in NamedTypes : TypeName(t) = s]
    ELSE [ok |-> FALSE, val |-> T("Empty")]

\* Regex::new: of the characters the model's texts use, only a leading
\* repetition operator is refused
RegexCompiles(s) == s = <<>> \/ Head(s) \notin {"*", "+"}

\* Path::to_str
PathIsUnicode(p) == \A i \in 1..Len(p) : p[i] # InvalidByte

RECURSIVE Join(_, _)
Join(segs, sep) == IF segs = <<>> THEN <<>>
                   ELSE IF Len(segs) = 1 THEN segs[1]
                   ELSE segs[1] \o sep \o Join(Tail(segs), sep)

\* chrono's "%Y-%m-%d %H:%M:%S %z" of the n-th second of the epoch (n < 10)
TimeString(n) == <<"1", "9", "7", "0", "-", "0", "1", "-", "0", "1", " ",
                   "0", "0", ":", "0", "0", ":", "0", Digits[n + 1], " ",
                   "+", "0", "0", "0", "0">>

\* duration_format of a whole number of seconds below one hour
duration_format(secs) ==
    IF secs < 60 THEN NatToStr(secs)
    ELSE NatToStr(secs \div 60) \o <<":">> \o
         (IF secs % 60 < 10 THEN <<"0">> ELSE <<>>) \o NatToStr(secs % 60)

\* Value::to_string
to_string(v) ==
    CASE v.tag = "Text"     -> v.val
      [] v.tag = "Integer"  -> IntToStr(v.val)
      [] v.tag = "Time"     -> TimeString(v.val)
      [] v.tag = "Field"    -> <<"%">> \o Join(v.val, <<".">>)
      [] v.tag = "Glob"     -> <<"*", "{">> \o v.val \o <<"}">>
      [] v.tag = "Regex"    -> <<"r", "{">> \o v.val \o <<"}">>
      [] v.tag = "Op"       -> v.val
      [] v.tag = "Command"  -> <<"C", "o", "m", "m", "a", "n", "d">>
      [] v.tag = "File"     -> IF PathIsUnicode(v.val) THEN v.val
                               ELSE <<"<", "B", "r", "o", "k", "e", "n", " ",
                                      "f", "i", "l", "e", ">">>
      [] v.tag = "Rows"     -> <<"<", "R", "o", "w", "s", ">">>
      [] v.tag = "Stream"   -> <<"<", "O", "u", "t", "p", "u", "t", ">">>
      [] v.tag = "Duration" -> duration_format(v.val)
      [] v.tag = "Bool"     -> IF v.val THEN <<"t", "r", "u", "e">>
                               ELSE <<"f", "a", "l", "s", "e">>
      [] v.tag = "Empty"    -> <<"<", "e", "m", "p", "t", "y", ">">>
      [] v.tag = "BinaryReader" -> <<"<", "b", "i", "n", "a", "r", "y", ">">>
      [] v.tag = "Type"     -> TypeName(v.val)
      [] OTHER              -> <<"<", v.tag, ">">>

----------------------------------------------------------------------------
(* Value::cast *)

Ok(v) == [ok |-> TRUE, val |-> v, err |-> ""]
Err(e) == [ok |-> FALSE, val |-> NoValue, err |-> e]

\* to_job_error(s.parse::<i128>()).map(Value::Integer)
ParseInteger(s) == IF ParseI128(s).ok THEN Ok(V("Integer", ParseI128(s).val))
                   ELSE Err("parse")

\* to_job_error(Regex::new(s).map(|v| Value::Regex(s, v)))
CompileRegex(s) == IF RegexCompiles(s) THEN Ok(V("Regex", s)) ELSE Err("regex")

\* cast's arms for a text source (the destination has no nested schema)
CastText(s, d) ==
    CASE d = "File"    -> Ok(V("File", s))
      [] d = "Glob"    -> Ok(V("Glob", s))
      [] d = "Integer" -> ParseInteger(s)
      [] d = "Field"   -> Ok(V("Field", <<s>>))
      [] d = "Op"      -> Ok(V("Op", s))
      [] d = "Regex"   -> CompileRegex(s)
      [] d = "Type"    -> IF ParseType(s).ok THEN Ok(V("Type", ParseType(s).val))
                          ELSE Err("type")
      [] OTHER         -> Err("Unimplemented conversion")

\* cast's arms for a file source: each needs the path to be valid text
CastFile(p, d) ==
    IF d \notin {"Text", "Glob", "Integer", "Op", "Regex"}
    THEN Err("Unimplemented conversion")
    ELSE IF ~PathIsUnicode(p) THEN Err("File name is not valid unicode")
    ELSE CASE d = "Text"    -> Ok(V("Text", p))
           [] d = "Glob"    -> Ok(V("Glob", p))
           [] d = "Integer" -> ParseInteger(p)
           [] d = "Op"      -> Ok(V("Op", p))
           [] d = "Regex"   -> CompileRegex(p)

\* cast's arms for a glob source; g is the glob's original text (Glob::to_string)
CastGlob(g, d) ==
    CASE d = "Text"    -> Ok(V("Text", g))
      [] d = "File"    -> Ok(V("File", g))
      [] d = "Integer" -> ParseInteger(g)
      [] d = "Op"      -> Ok(V("Op", g))
      [] d = "Regex"   -> CompileRegex(g)
      [] OTHER         -> Err("Unimplemented conversion")

\* a regex cast to text renders as Value::to_string does, r{...}
CastRegexRendered(s, d) ==
    CASE d = "File"    -> Ok(V("File", s))
      [] d = "Glob"    -> Ok(V("Glob", s))
      [] d = "Integer" -> ParseInteger(s)
      [] d = "Text"    -> Ok(V("Text", <<"r", "{">> \o s \o <<"}">>))
      [] d = "Op"      -> Ok(V("Op", s))
      [] OTHER         -> Err("Unimplemented conversion")

\* cast's arms for a regex source
CastRegex(s, d) ==
    CASE d = "File"    -> Ok(V("File", s))
      [] d = "Glob"    -> Ok(V("Glob", s))
      [] d = "Integer" -> ParseInteger(s)
      [] d = "Text"    -> Ok(V("Text", s))
      [] d = "Op"      -> Ok(V("Op", s))
      [] OTHER         -> Err("Unimplemented conversion")

\* cast's arms for an integer source
CastInteger(i, d) ==
    CASE d = "Text"    -> Ok(V("Text", IntToStr(i)))
      [] d = "File"    -> Ok(V("File", IntToStr(i)))
      [] d = "Glob"    -> Ok(V("Glob", IntToStr(i)))
      [] d = "Field"   -> Ok(V("Field", <<IntToStr(i)>>))
      [] d = "Op"      -> Ok(V("Op", IntToStr(i)))
      [] d = "Regex"   -> CompileRegex(IntToStr(i))
      [] OTHER         -> Err("Unimplemented conversion")

\* the match of cast on (self, new_type)
CastMatch(v, new_type) ==
    IF new_type.sub # <<>> THEN Err("Unimplemented conversion")
    ELSE CASE v.tag = "Text"    -> CastText(v.val, new_type.tag)
           [] v.tag = "File"    -> CastFile(v.val, new_type.tag)
           [] v.tag = "Glob"    -> CastGlob(v.val, new_type.tag)
           [] v.tag = "Regex"   -> CastRegex(v.val, new_type.tag)
           [] v.tag = "Integer" -> CastInteger(v.val, new_type.tag)
           [] v.tag = "Type" /\ new_type.tag = "Text" -> Ok(V("Text", TypeName(v.val)))
           [] OTHER             -> Err("Unimplemented conversion")

\* cast without the early return for the value's own type
CastWithoutIdentity(v, new_type) == CastMatch(v, new_type)

\* Value::cast
cast(v, new_type) ==
    IF value_type(v) = new_type THEN Ok(v) ELSE CastMatch(v, new_type)

----------------------------------------------------------------------------
(* The values and types cast is exercised on *)

CastChars == {"0", "7", "-", "+", "a"}

CastTexts == SeqsUpTo(CastChars, MaxTextLen) \cup {TypeName(t) : t \in NamedTypes}

ShortTexts == SeqsUpTo({"7", "a"}, 1)

Schemas == {<<>>, <<"Integer">>, <<"Text">>}

ValueTags == {"Text", "Integer", "Time", "Duration", "Field", "Glob", "Regex", "Op",
              "Command", "Closure", "Stream", "File", "Rows", "Struct", "List", "Dict",
              "Env", "Bool", "Float", "Empty", "BinaryReader", "Type"}

\* the payloads of the variants that carry no text, by variant
PlainPayloads(tag) ==
    CASE tag = "Integer"  -> -MaxInt..MaxInt
      [] tag = "Bool"     -> BOOLEAN
      [] tag = "Empty"    -> {<<>>}
      [] tag = "Time"     -> {0, 1}
      [] tag = "Duration" -> {0, 1, 61}
      [] tag = "Type"     -> NamedTypes
      [] tag \in {"Stream", "Rows"} -> Schemas
      [] OTHER            -> {0, 1}

\* the payloads cast is exercised on, by variant
CastPayloads(tag) ==
    CASE tag \in {"Text", "Glob"} -> CastTexts
      [] tag = "File"             -> CastTexts \cup {<<InvalidByte>>}
      [] tag = "Regex"            -> {x \in CastTexts : RegexCompiles(x)}
      [] tag = "Op"               -> ShortTexts
      [] tag = "Field"            -> {<<x>> : x \in ShortTexts}
      [] OTHER                    -> PlainPayloads(tag)

CastTargets ==
    {T(tag) : tag \in TypeTags \ {"Stream", "Rows"}}
    \cup {TSub(tag, sc) : tag \in {"Stream", "Rows"}, sc \in Schemas}

NoResult == [ok |-> FALSE, val |-> NoValue, err |-> "none"]

CastIdle == cpc = "idle" /\ cIn = NoValue /\ cTo = T("Empty")
            /\ cRes = NoResult /\ cBack = NoResult

InitCast == /\ cpc = "start"
            /\ \E tag \in ValueTags : \E x \in CastPayloads(tag) : cIn = V(tag, x)
            /\ cTo \in CastTargets
            /\ cRes = NoResult
            /\ cBack = NoResult

\* v.cast(D)
CastStep == /\ cpc = "start"
            /\ cRes' = cast(cIn, cTo)
            /\ cpc' = "cast"
            /\ UNCHANGED <<cIn, cTo, cBack>>
  /\ UNCHANGED <<cmpVars, uniqVars, zipVars, printVars, renderVars>>

\* v.cast(D).cast(S), S the type of v
CastBackStep == /\ cpc = "cast"
                /\ cRes.ok
                /\ cBack' = cast(cRes.val, value_type(cIn))
                /\ cpc' = "back"
                /\ UNCHANGED <<cIn, cTo, cRes>>
  /\ UNCHANGED <<cmpVars, uniqVars, zipVars, printVars, renderVars>>

NextCast == CastStep \/ CastBackStep

----------------------------------------------------------------------------
(* Paths, globs and the order of texts *)

\* ASCII codes of the characters compared texts are made of
CharCode(c) ==
    CASE c = "*" -> 42 [] c = "+" -> 43 [] c = "-" -> 45 [] c = "." -> 46
      [] c = "/" -> 47 [] c = "a" -> 97
      [] IsDigit(c) -> 48 + DigitVal(c)
      [] OTHER -> 255

OrdOf(x, y) == IF x < y THEN "Less" ELSE IF x > y THEN "Greater" ELSE "Equal"

\* Ord of str: lexicographic by character
RECURSIVE LexCmp(_, _)
LexCmp(s, t) ==
    IF s = <<>> THEN (IF t = <<>> THEN "Equal" ELSE "Less")
    ELSE IF t = <<>> THEN "Greater"
    ELSE IF Head(s) # Head(t) THEN OrdOf(CharCode(Head(s)), CharCode(Head(t)))
    ELSE LexCmp(Tail(s), Tail(t))

\* Ord of a sequence of texts: lexicographic by element
RECURSIVE LexCmpSeq(_, _)
LexCmpSeq(s, t) ==
    IF s = <<>> THEN (IF t = <<>> THEN "Equal" ELSE "Less")
    ELSE IF t = <<>> THEN "Greater"
    ELSE IF LexCmp(Head(s), Head(t)) # "Equal" THEN LexCmp(Head(s), Head(t))
    ELSE LexCmpSeq(Tail(s), Tail(t))

\* the segments of a path between its separators
RECURSIVE SplitPath(_, _)
SplitPath(p, cur) ==
    IF p = <<>> THEN <<cur>>
    ELSE IF Head(p) = "/" THEN <<cur>> \o SplitPath(Tail(p), <<>>)
    ELSE SplitPath(Tail(p), Append(cur, Head(p)))

\* Path::components: the root, a leading ".", and every segment that is
\* neither empty nor "."
PathComponents(p) ==
    LET segs == SplitPath(p, <<>>)
        rooted == p # <<>> /\ Head(p) = "/"
        named == SelectSeq(segs, LAMBDA x : x # <<>> /\ x # <<".">>)
    IN  (IF rooted THEN <<<<"/">>>> ELSE <<>>)
        \o (IF ~rooted /\ segs[1] = <<".">> THEN <<<<".">>>> ELSE <<>>)
        \o named

\* The filesystem of the model: the working directory /w holds one regular
\* file, a, and nothing else exists.  Walk a path from a place.
RECURSIVE Walk(_, _)
Walk(at, segs) ==
    IF segs = <<>> \/ at = "none" THEN at
    ELSE LET x == Head(segs)
         IN  Walk(CASE at = "/w/a" -> "none"
                    [] x = <<>> \/ x = <<".">> -> at
                    [] x = <<".", ".">> -> "/"
                    [] x = <<"a">> /\ at = "/w" -> "/w/a"
                    [] OTHER -> "none",
                  Tail(segs))

\* Path::canonicalize: the place a path names, "none" when it names nothing
Canonicalize(p) ==
    IF p = <<>> \/ ~PathIsUnicode(p) THEN "none"
    ELSE IF Head(p) = "/" THEN Walk("/", Tail(SplitPath(p, <<>>)))
    ELSE Walk("/w", SplitPath(p, <<>>))

\* file_result_compare
file_result_compare(f1, f2) ==
    Canonicalize(f1) # "none" /\ Canonicalize(f2) # "none"
    /\ Canonicalize(f1) = Canonicalize(f2)

\* Glob::matches: "*" stands for any run of characters other than "/"
RECURSIVE GlobMatches(_, _)
GlobMatches(g, s) ==
    IF g = <<>> THEN s = <<>>
    ELSE IF Head(g) = "*"
         THEN GlobMatches(Tail(g), s)
              \/ (s # <<>> /\ Head(s) # "/" /\ GlobMatches(g, Tail(s)))
         ELSE s # <<>> /\ Head(s) = Head(g) /\ GlobMatches(Tail(g), Tail(s))

----------------------------------------------------------------------------
(* impl Hash, PartialEq, PartialOrd for Value *)

\* What hashing a value feeds the hasher: the kind of the data and the data.
\* Two hashes are equal when the hasher was fed the same.  No variant feeds
\* its discriminant.
Fed(kind, data) == [h |-> kind, w |-> data]

Panic == Fed("panic", <<>>)

Panics(h) == h.h = "panic"

\* two hashes are the same: the same kind of data, and the same data
SameHash(h1, h2) == h1.h = h2.h /\ h1.w = h2.w

\* impl Hash for Value
hash(v) ==
    IF ~is_hashable(value_type(v)) THEN Panic
    ELSE CASE v.tag \in {"Text", "Glob", "Regex", "Op"} -> Fed("str", v.val)
           [] v.tag = "Integer"  -> Fed("i128", <<v.val>>)
           [] v.tag = "Time"     -> Fed("time", <<v.val>>)
           [] v.tag = "Field"    -> Fed("vec", v.val)
           [] v.tag = "Command"  -> Fed("nothing", <<>>)
           [] v.tag = "File"     -> Fed("path", PathComponents(v.val))
           [] v.tag = "Duration" -> Fed("duration", <<v.val>>)
           [] v.tag = "Bool"     -> Fed("bool", <<v.val>>)
           [] v.tag = "Empty"    -> Fed("nothing", <<>>)
           [] v.tag = "Type"     -> Fed("str", TypeName(v.val))
           [] OTHER              -> Panic

\* Rows::partial_cmp and Struct::partial_cmp on the payloads of the model
PayloadCmp(x, y) == IF x = y THEN "Equal" ELSE "None"

\* impl PartialEq for Value
eq(a, b) ==
    CASE a.tag = "Text" /\ b.tag = "Text" -> a.val = b.val
      [] a.tag = "Glob" /\ b.tag = "Text" -> GlobMatches(a.val, b.val)
      [] a.tag = "Text" /\ b.tag = "Glob" -> GlobMatches(b.val, a.val)
      [] a.tag = b.tag /\ a.tag \in {"Integer", "Time", "Duration", "Field", "Glob",
                                     "Regex", "Op", "Command", "List", "Bool"}
                                          -> a.val = b.val
      [] a.tag = b.tag /\ a.tag \in {"Rows", "Struct"}
                                          -> PayloadCmp(a.val, b.val) = "Equal"
      [] a.tag = "File" /\ b.tag = "File" -> file_result_compare(a.val, b.val)
      [] a.tag = "Text" /\ b.tag = "File" -> file_result_compare(a.val, b.val)
      [] a.tag = "File" /\ b.tag = "Text" -> file_result_compare(b.val, a.val)
      [] OTHER -> FALSE

\* the rank of a type tag in ValueType's derived order
TagOrder == <<"Text", "Integer", "Time", "Duration", "Field", "Glob", "Regex", "Op",
              "Command", "Closure", "Stream", "File", "Rows", "Row", "List", "Dict",
              "Env", "Bool", "Float", "Empty", "Binary", "Type">>

TagRank(tag) == CHOOSE i \in 1..Len(TagOrder) : TagOrder[i] = tag

RECURSIVE SchemaCmp(_, _)
SchemaCmp(s, t) ==
    IF s = <<>> THEN (IF t = <<>> THEN "Equal" ELSE "Less")
    ELSE IF t = <<>> THEN "Greater"
    ELSE IF Head(s) # Head(t) THEN OrdOf(TagRank(Head(s)), TagRank(Head(t)))
    ELSE SchemaCmp(Tail(s), Tail(t))

\* Ord of ValueType: by tag, then by nested schema
TypeCmp(t1, t2) ==
    IF t1.tag # t2.tag THEN OrdOf(TagRank(t1.tag), TagRank(t2.tag))
    ELSE SchemaCmp(t1.sub, t2.sub)

\* impl PartialOrd for Value: "None" is Option::None
partial_cmp(a, b) ==
    IF value_type(a) # value_type(b) THEN TypeCmp(value_type(a), value_type(b))
    ELSE CASE a.tag \in {"Text", "Glob", "Regex", "Op"} -> LexCmp(a.val, b.val)
           [] a.tag = "Field" -> LexCmpSeq(a.val, b.val)
           [] a.tag = "File" -> LexCmpSeq(PathComponents(a.val), PathComponents(b.val))
           [] a.tag \in {"Integer", "Time", "Duration"} -> OrdOf(a.val, b.val)
           [] a.tag \in {"Command", "Closure", "Stream"} -> "None"
           [] a.tag \in {"Rows", "Struct", "List"} -> PayloadCmp(a.val, b.val)
           [] a.tag = "Bool" -> OrdOf(IF a.val THEN 1 ELSE 0, IF b.val THEN 1 ELSE 0)
           [] OTHER -> "None"

----------------------------------------------------------------------------
(* The pairs of values Hash, PartialEq and PartialOrd are exercised on *)

CmpChars == {"a", "*", ".", "/"}

CmpTexts == SeqsUpTo(CmpChars, MaxCmpLen) \cup {<<".", "/", "a">>}

\* the payloads of compared and hashed values, by variant
CmpPayloads(tag) ==
    CASE tag \in {"Text", "File", "Glob"} -> CmpTexts
      [] tag \in {"Regex", "Op"}          -> ShortTexts
      [] tag = "Field"                    -> {<<x>> : x \in ShortTexts}
      [] OTHER                            -> PlainPayloads(tag)

NoHash == Fed("none", <<>>)

CmpIdle == kpc = "idle" /\ kA = NoValue /\ kB = NoValue /\ kEq = FALSE
           /\ kHashA = NoHash /\ kHashB = NoHash /\ kOrd = "unset"

InitCmp == /\ kpc = "start"
           /\ \E tag \in ValueTags : \E x \in CmpPayloads(tag) : kA = V(tag, x)
           /\ \E tag \in ValueTags : \E x \in CmpPayloads(tag) : kB = V(tag, x)
           /\ kEq = FALSE
           /\ kHashA = NoHash
           /\ kHashB = NoHash
           /\ kOrd = "unset"

\* a == b
EqStep == /\ kpc = "start"
          /\ kEq' = eq(kA, kB)
          /\ kpc' = "eq"
          /\ UNCHANGED <<kA, kB, kHashA, kHashB, kOrd>>
  /\ UNCHANGED <<castVars, uniqVars, zipVars, printVars, renderVars>>

\* a.partial_cmp(b)
OrdStep == /\ kpc = "eq"
           /\ kOrd' = partial_cmp(kA, kB)
           /\ kpc' = "ord"
           /\ UNCHANGED <<kA, kB, kEq, kHashA, kHashB>>
  /\ UNCHANGED <<castVars, uniqVars, zipVars, printVars, renderVars>>

\* a.hash(..) and b.hash(..) of two hashable values
HashStep == /\ kpc = "ord"
            /\ ~Panics(hash(kA)) /\ ~Panics(hash(kB))
            /\ kHashA' = hash(kA)
            /\ kHashB' = hash(kB)
            /\ kpc' = "hashed"
            /\ UNCHANGED <<kA, kB, kEq, kOrd>>
  /\ UNCHANGED <<castVars, uniqVars, zipVars, printVars, renderVars>>

\* hashing an unhashable value panics
HashPanic == /\ kpc = "ord"
             /\ (Panics(hash(kA)) \/ Panics(hash(kB)))
             /\ kpc' = "panic"
             /\ UNCHANGED <<kA, kB, kEq, kHashA, kHashB, kOrd>>
  /\ UNCHANGED <<castVars, uniqVars, zipVars, printVars, renderVars>>

NextCmp == EqStep \/ OrdStep \/ HashStep \/ HashPanic

----------------------------------------------------------------------------
(* uniq *)

\* a column of a schema: its name and the tag of its type
Col(name, tag) == [name |-> name, cell_type |-> tag]

\* Row's PartialEq and Hash: cell by cell
RowEq(r1, r2) == Len(r1) = Len(r2) /\ \A i \in 1..Len(r1) : eq(r1[i], r2[i])

RowHash(r) == IF \E i \in 1..Len(r) : Panics(hash(r[i])) THEN Panic
              ELSE Fed("row", [i \in 1..Len(r) |-> hash(r[i])])

\* the key of a row: the whole row (idx = 0, None) or the cell at column idx
KeyOf(row, idx) == IF idx = 0 THEN row ELSE row[idx]

KeyHash(key, idx) == IF idx = 0 THEN RowHash(key) ELSE hash(key)

KeyEq(k1, k2, idx) == IF idx = 0 THEN RowEq(k1, k2) ELSE eq(k1, k2)

\* HashSet::contains: an element of the same hash that is equal to the key
SeenContains(seen, key, idx) ==
    \E e \in seen : SameHash(KeyHash(e, idx), KeyHash(key, idx)) /\ KeyEq(e, key, idx)

\* parse: no argument selects the whole row; a field must name a column
ParseArg(types, arg) ==
    IF arg = "none" THEN [ok |-> TRUE, idx |-> 0]
    ELSE IF \E i \in 1..Len(types) : types[i].name = arg
         THEN [ok |-> TRUE, idx |-> CHOOSE i \in 1..Len(types) : types[i].name = arg]
         ELSE [ok |-> FALSE, idx |-> 0]

\* the keys a column of each type holds in the model's input streams
UniqKeyTypes == {"File", "Text", "Float", "Empty", "Type"}

UniqKeys(tag) ==
    CASE tag = "File"  -> {V("File", <<"a">>), V("File", <<".", "/", "a">>), V("File", <<"*">>)}
      [] tag = "Text"  -> {V("Text", <<"a">>), V("Text", <<"*">>)}
      [] tag = "Float" -> {V("Float", 0), V("Float", 1)}
      [] tag = "Empty" -> {V("Empty", <<>>)}
      [] tag = "Type"  -> {V("Type", T("Text")), V("Type", T("Bool"))}

UniqRows(tag) == {<<k, x>> : k \in UniqKeys(tag), x \in {V("Integer", 1), V("Integer", 2)}}

UniqIdle == /\ upc = "idle" /\ uArg = "none" /\ uIdx = 0 /\ uTypes = <<>> /\ uAll = <<>>
            /\ uInput = <<>> /\ uClosed = FALSE /\ uSeen = {} /\ uOut = <<>>
            /\ uOutType = <<>> /\ uOutOpen = FALSE /\ uLog = <<>> /\ uReports = <<>>

InitUniq == /\ upc = "start"
            /\ uArg \in {"none", "k", "x", "nosuch"}
            /\ uIdx = 0
            /\ \E tag \in UniqKeyTypes :
                  /\ uTypes = <<Col("k", tag), Col("x", "Integer")>>
                  /\ uAll \in SeqsUpTo(UniqRows(tag), MaxRows)
            /\ uInput = uAll
            /\ uClosed = FALSE
            /\ uSeen = {}
            /\ uOut = <<>>
            /\ uOutType = <<>>
            /\ uOutOpen = TRUE
            /\ uLog = <<>>
            /\ uReports = <<>>

\* the producer of the input finishes: its sending handle closes
UniqInputCloses == /\ upc # "idle"
                   /\ ~uClosed
                   /\ uClosed' = TRUE
                   /\ UNCHANGED <<upc, uArg, uIdx, uTypes, uAll, uInput, uSeen, uOut,
                                  uOutType, uOutOpen, uLog, uReports>>
  /\ UNCHANGED <<castVars, cmpVars, zipVars, printVars, renderVars>>

\* the consumer of the output drops its receiving handle
UniqOutputDropped == /\ upc # "idle"
                     /\ uOutOpen
                     /\ uOutOpen' = FALSE
                     /\ UNCHANGED <<upc, uArg, uIdx, uTypes, uAll, uInput, uClosed, uSeen,
                                    uOut, uOutType, uLog, uReports>>
  /\ UNCHANGED <<castVars, cmpVars, zipVars, printVars, renderVars>>

\* uniq: parse the argument, declare the output schema, enter run
UniqStart ==
    /\ upc = "start"
    /\ \/ /\ ~ParseArg(uTypes, uArg).ok
          /\ upc' = "failed"
          /\ UNCHANGED <<uIdx, uOutType>>
       \/ /\ ParseArg(uTypes, uArg).ok
          /\ ~uOutOpen
          /\ upc' = "failed"
          /\ UNCHANGED <<uIdx, uOutType>>
       \/ /\ ParseArg(uTypes, uArg).ok
          /\ uOutOpen
          /\ uIdx' = ParseArg(uTypes, uArg).idx
          /\ uOutType' = uTypes
          /\ upc' = "run"
    /\ UNCHANGED <<uArg, uTypes, uAll, uInput, uClosed, uSeen, uOut, uOutOpen,
                   uLog, uReports>>
    /\ UNCHANGED <<castVars, cmpVars, zipVars, printVars, renderVars>>

\* the position in the input of the row the loop reads next
UniqPosition == Len(uAll) - Len(uInput) + 1

\* a failed send returns its error instead of being handed to the printer
UniqRunStepFatal ==
    /\ upc = "run"
    /\ uInput # <<>>
    /\ LET row == Head(uInput)
           key == KeyOf(row, uIdx)
       IN  \/ /\ Panics(KeyHash(key, uIdx))
              /\ upc' = "panic"
              /\ UNCHANGED <<uSeen, uOut, uLog, uReports>>
           \/ /\ ~Panics(KeyHash(key, uIdx))
              /\ SeenContains(uSeen, key, uIdx)
              /\ UNCHANGED <<upc, uSeen, uOut, uLog, uReports>>
           \/ /\ ~Panics(KeyHash(key, uIdx))
              /\ ~SeenContains(uSeen, key, uIdx)
              /\ uSeen' = uSeen \cup {key}
              /\ uLog' = Append(uLog, [i |-> UniqPosition, ok |-> uOutOpen])
              /\ IF uOutOpen
                 THEN uOut' = Append(uOut, row) /\ UNCHANGED <<upc, uReports>>
                 ELSE upc' = "failed" /\ UNCHANGED <<uOut, uReports>>
    /\ uInput' = Tail(uInput)
    /\ UNCHANGED <<uArg, uIdx, uTypes, uAll, uClosed, uOutType, uOutOpen>>
    /\ UNCHANGED <<castVars, cmpVars, zipVars, printVars, renderVars>>

\* one turn of run's loop on the row read: a seen key drops the row;
\* otherwise the key is inserted and the row sent, a failed send being
\* handed to the printer; hashing an unhashable key panics.  uLog keeps,
\* for each send, the position of its row in the input and how it went.
UniqRunStep ==
    /\ upc = "run"
    /\ uInput # <<>>
    /\ LET row == Head(uInput)
           key == KeyOf(row, uIdx)
       IN  \/ /\ Panics(KeyHash(key, uIdx))
              /\ upc' = "panic"
              /\ UNCHANGED <<uSeen, uOut, uLog, uReports>>
           \/ /\ ~Panics(KeyHash(key, uIdx))
              /\ SeenContains(uSeen, key, uIdx)
              /\ UNCHANGED <<upc, uSeen, uOut, uLog, uReports>>
           \/ /\ ~Panics(KeyHash(key, uIdx))
              /\ ~SeenContains(uSeen, key, uIdx)
              /\ uSeen' = uSeen \cup {key}
              /\ uLog' = Append(uLog, [i |-> UniqPosition, ok |-> uOutOpen])
              /\ IF uOutOpen
                 THEN uOut' = Append(uOut, row) /\ UNCHANGED uReports
                 ELSE uReports' = Append(uReports, row) /\ UNCHANGED uOut
              /\ UNCHANGED upc
    /\ uInput' = Tail(uInput)
    /\ UNCHANGED <<uArg, uIdx, uTypes, uAll, uClosed, uOutType, uOutOpen>>
    /\ UNCHANGED <<castVars, cmpVars, zipVars, printVars, renderVars>>

\* the read reports the end of the stream: run returns Ok(())
UniqRunEnd == /\ upc = "run"
              /\ uInput = <<>>
              /\ uClosed
              /\ upc' = "done"
              /\ UNCHANGED <<uArg, uIdx, uTypes, uAll, uInput, uClosed, uSeen, uOut,
                             uOutType, uOutOpen, uLog, uReports>>
  /\ UNCHANGED <<castVars, cmpVars, zipVars, printVars, renderVars>>

NextUniq == UniqInputCloses \/ UniqOutputDropped \/ UniqStart \/ UniqRunStep \/ UniqRunEnd

----------------------------------------------------------------------------
(* zip *)

\* the schemas of the two inputs
ZipTypesA == <<Col("n", "Integer")>>
ZipTypesB == <<Col("s", "Text"), Col("t", "Text")>>

\* the i-th row each producer sends
ZipRowA(i) == <<V("Integer", i)>>
ZipRowB(i) == <<V("Text", NatToStr(i)), V("Text", <<"a">>)>>

\* what a read reports at the end of a stream
ReadOk(row) == [st |-> "Ok", row |-> row]
EndOfStream == [st |-> "Err", row |-> <<>>]
NotRead == [st |-> "unread", row |-> <<>>]

\* row2 put before row1
AppendReversed(row1, row2) == row2 \o row1

\* row1.append(&mut row2.into_vec())
AppendRow(row1, row2) == row1 \o row2

\* output_type: first's columns, then second's
ZipOutputType(first, second) == first \o second

ZipIdle == /\ zpc = "idle" /\ zLenA = 0 /\ zLenB = 0 /\ zFirst = <<>> /\ zSecond = <<>>
           /\ zSentA = 0 /\ zSentB = 0 /\ zFirstClosed = FALSE /\ zSecondClosed = FALSE
           /\ zR1 = NotRead /\ zR2 = NotRead /\ zOut = <<>> /\ zOutType = <<>>
           /\ zOutOpen = FALSE /\ zReads1 = 0 /\ zReads2 = 0 /\ zSends = 0
           /\ zSendFailed = FALSE

InitZip == /\ zpc = "start"
           /\ zLenA \in 0..MaxZip
           /\ zLenB \in 0..MaxZip
           /\ zFirst = <<>> /\ zSecond = <<>>
           /\ zSentA = 0 /\ zSentB = 0
           /\ zFirstClosed = FALSE /\ zSecondClosed = FALSE
           /\ zR1 = NotRead /\ zR2 = NotRead
           /\ zOut = <<>> /\ zOutType = <<>>
           /\ zOutOpen = TRUE
           /\ zReads1 = 0 /\ zReads2 = 0 /\ zSends = 0
           /\ zSendFailed = FALSE

\* the producer of the first input sends its next row
ZipFirstSends == /\ zpc # "idle"
                 /\ zSentA < zLenA
                 /\ zSentA' = zSentA + 1
                 /\ zFirst' = Append(zFirst, ZipRowA(zSentA + 1))
                 /\ UNCHANGED <<zpc, zLenA, zLenB, zSecond, zSentB, zFirstClosed,
                                zSecondClosed, zR1, zR2, zOut, zOutType, zOutOpen,
                                zReads1, zReads2, zSends, zSendFailed>>
  /\ UNCHANGED <<castVars, cmpVars, uniqVars, printVars, renderVars>>

\* the producer of the first input, all rows sent, closes its sending handle
ZipFirstCloses == /\ zpc # "idle"
                  /\ zSentA = zLenA
                  /\ ~zFirstClosed
                  /\ zFirstClosed' = TRUE
                  /\ UNCHANGED <<zpc, zLenA, zLenB, zFirst, zSecond, zSentA, zSentB,
                                 zSecondClosed, zR1, zR2, zOut, zOutType, zOutOpen,
                                 zReads1, zReads2, zSends, zSendFailed>>
  /\ UNCHANGED <<castVars, cmpVars, uniqVars, printVars, renderVars>>

ZipSecondSends == /\ zpc # "idle"
                  /\ zSentB < zLenB
                  /\ zSentB' = zSentB + 1
                  /\ zSecond' = Append(zSecond, ZipRowB(zSentB + 1))
                  /\ UNCHANGED <<zpc, zLenA, zLenB, zFirst, zSentA, zFirstClosed,
                                 zSecondClosed, zR1, zR2, zOut, zOutType, zOutOpen,
                                 zReads1, zReads2, zSends, zSendFailed>>
  /\ UNCHANGED <<castVars, cmpVars, uniqVars, printVars, renderVars>>

ZipSecondCloses == /\ zpc # "idle"
                   /\ zSentB = zLenB
                   /\ ~zSecondClosed
                   /\ zSecondClosed' = TRUE
                   /\ UNCHANGED <<zpc, zLenA, zLenB, zFirst, zSecond, zSentA, zSentB,
                                  zFirstClosed, zR1, zR2, zOut, zOutType, zOutOpen,
                                  zReads1, zReads2, zSends, zSendFailed>>
  /\ UNCHANGED <<castVars, cmpVars, uniqVars, printVars, renderVars>>

\* the consumer of the output drops its receiving handle
ZipOutputDropped == /\ zpc # "idle"
                    /\ zOutOpen
                    /\ zOutOpen' = FALSE
                    /\ UNCHANGED <<zpc, zLenA, zLenB, zFirst, zSecond, zSentA, zSentB,
                                   zFirstClosed, zSecondClosed, zR1, zR2, zOut, zOutType,
                                   zReads1, zReads2, zSends, zSendFailed>>
  /\ UNCHANGED <<castVars, cmpVars, uniqVars, printVars, renderVars>>

\* context.output.initialize(output_type)?
ZipStart == /\ zpc = "start"
            /\ IF zOutOpen
               THEN zOutType' = ZipOutputType(ZipTypesA, ZipTypesB) /\ zpc' = "read1"
               ELSE zpc' = "failed" /\ UNCHANGED zOutType
            /\ UNCHANGED <<zLenA, zLenB, zFirst, zSecond, zSentA, zSentB, zFirstClosed,
                           zSecondClosed, zR1, zR2, zOut, zOutOpen, zReads1, zReads2,
                           zSends, zSendFailed>>
  /\ UNCHANGED <<castVars, cmpVars, uniqVars, printVars, renderVars>>

\* cfg.first.read(): blocks until a row is there or the stream is closed
ZipReadFirst ==
    /\ zpc = "read1"
    /\ \/ /\ zFirst # <<>>
          /\ zR1' = ReadOk(Head(zFirst))
          /\ zFirst' = Tail(zFirst)
       \/ /\ zFirst = <<>>
          /\ zFirstClosed
          /\ zR1' = EndOfStream
          /\ UNCHANGED zFirst
    /\ zReads1' = zReads1 + 1
    /\ zpc' = "read2"
    /\ UNCHANGED <<zLenA, zLenB, zSecond, zSentA, zSentB, zFirstClosed, zSecondClosed,
                   zR2, zOut, zOutType, zOutOpen, zReads2, zSends, zSendFailed>>
  /\ UNCHANGED <<castVars, cmpVars, uniqVars, printVars, renderVars>>

\* cfg.second.read(): the second element of the tuple, evaluated whatever
\* the first read reported
ZipReadSecond ==
    /\ zpc = "read2"
    /\ \/ /\ zSecond # <<>>
          /\ zR2' = ReadOk(Head(zSecond))
          /\ zSecond' = Tail(zSecond)
       \/ /\ zSecond = <<>>
          /\ zSecondClosed
          /\ zR2' = EndOfStream
          /\ UNCHANGED zSecond
    /\ zReads2' = zReads2 + 1
    /\ zpc' = "match"
    /\ UNCHANGED <<zLenA, zLenB, zFirst, zSentA, zSentB, zFirstClosed, zSecondClosed,
                   zR1, zOut, zOutType, zOutOpen, zReads1, zSends, zSendFailed>>
  /\ UNCHANGED <<castVars, cmpVars, uniqVars, printVars, renderVars>>

\* a failed send is passed over and the loop goes on
ZipMatchTolerant ==
    /\ zpc = "match"
    /\ IF zR1.st = "Ok" /\ zR2.st = "Ok"
       THEN /\ zSends' = zSends + 1
            /\ IF zOutOpen
               THEN /\ zOut' = Append(zOut, AppendRow(zR1.row, zR2.row))
                    /\ UNCHANGED zSendFailed
               ELSE /\ zSendFailed' = TRUE
                    /\ UNCHANGED zOut
            /\ zpc' = "read1"
       ELSE /\ zpc' = "done"
            /\ UNCHANGED <<zOut, zSends, zSendFailed>>
    /\ UNCHANGED <<zLenA, zLenB, zFirst, zSecond, zSentA, zSentB, zFirstClosed,
                   zSecondClosed, zR1, zR2, zOutType, zOutOpen, zReads1, zReads2>>
  /\ UNCHANGED <<castVars, cmpVars, uniqVars, printVars, renderVars>>

\* the while-let pattern and the loop body: two rows are appended and sent,
\* a failed send returning its error; anything else ends the loop with Ok(())
ZipMatch ==
    /\ zpc = "match"
    /\ IF zR1.st = "Ok" /\ zR2.st = "Ok"
       THEN /\ zSends' = zSends + 1
            /\ IF zOutOpen
               THEN /\ zOut' = Append(zOut, AppendRow(zR1.row, zR2.row))
                    /\ zpc' = "read1"
                    /\ UNCHANGED zSendFailed
               ELSE /\ zSendFailed' = TRUE
                    /\ zpc' = "failed"
                    /\ UNCHANGED zOut
       ELSE /\ zpc' = "done"
            /\ UNCHANGED <<zOut, zSends, zSendFailed>>
    /\ UNCHANGED <<zLenA, zLenB, zFirst, zSecond, zSentA, zSentB, zFirstClosed,
                   zSecondClosed, zR1, zR2, zOutType, zOutOpen, zReads1, zReads2>>
  /\ UNCHANGED <<castVars, cmpVars, uniqVars, printVars, renderVars>>

NextZip == ZipFirstSends \/ ZipFirstCloses \/ ZipSecondSends \/ ZipSecondCloses \/ ZipOutputDropped \/ ZipStart \/ ZipReadFirst \/ ZipReadSecond \/ ZipMatch

----------------------------------------------------------------------------
(* The renderer: print_internal *)

\* a column without a name
NoName == "<none>"

\* the buffer is flushed at this many rows
BatchSize == 49

\* the schemas of the streams rendered; every schema has a column
PrintSchemas ==
    { <<Col(NoName, "Integer")>>,
      <<Col("n", "Integer"), Col("s", "Text")>>,
      <<Col("n", "Integer"), Col(NoName, "Stream")>>,
      <<Col("t", "Rows"), Col("n", "Integer")>>,
      <<Col("b", "Binary"), Col("s", "Text")>> }

\* the scan of the schema: some column is a stream or a table
HasTable(types) == \E i \in 1..Len(types) : types[i].cell_type \in {"Stream", "Rows"}

\* the scan of the schema: some column has a name
HasName(types) == \E i \in 1..Len(types) : types[i].name # NoName

\* flushing at a full buffer only
FlushWhenFull(len, has_table) == len = BatchSize

\* data.len() == 49 || has_table
FlushNow(len, has_table) == len = BatchSize \/ has_table

PrintIdle == /\ ppc = "idle" /\ pTypes = <<>> /\ pHasName = FALSE /\ pHasTable = FALSE
             /\ pRead = 0 /\ pData = <<>> /\ pBatches = <<>>

InitPrint == /\ ppc = "start"
             /\ pTypes \in PrintSchemas
             /\ pHasName = FALSE
             /\ pHasTable = FALSE
             /\ pRead = 0
             /\ pData = <<>>
             /\ pBatches = <<>>

\* the scan of stream.get_type() before the loop
PrintScan == /\ ppc = "start"
             /\ pHasName' = HasName(pTypes)
             /\ pHasTable' = HasTable(pTypes)
             /\ ppc' = "read"
             /\ UNCHANGED <<pTypes, pRead, pData, pBatches>>
  /\ UNCHANGED <<castVars, cmpVars, uniqVars, zipVars, renderVars>>

\* stream.read() gives the next row (rows are numbered in read order),
\* which is pushed onto the buffer
PrintRead == /\ ppc = "read"
             /\ pRead < MaxPrintRows
             /\ pRead' = pRead + 1
             /\ pData' = Append(pData, pRead + 1)
             /\ ppc' = "pushed"
             /\ UNCHANGED <<pTypes, pHasName, pHasTable, pBatches>>
  /\ UNCHANGED <<castVars, cmpVars, uniqVars, zipVars, renderVars>>

\* after the push: print_partial on the buffer when it is due, and a new buffer
PrintAfterPush == /\ ppc = "pushed"
                  /\ IF FlushNow(Len(pData), pHasTable)
                     THEN pBatches' = Append(pBatches, pData) /\ pData' = <<>>
                     ELSE UNCHANGED <<pBatches, pData>>
                  /\ ppc' = "read"
                  /\ UNCHANGED <<pTypes, pHasName, pHasTable, pRead>>
  /\ UNCHANGED <<castVars, cmpVars, uniqVars, zipVars, renderVars>>

\* stream.read() fails: the loop breaks and what is left is printed
PrintEnd == /\ ppc = "read"
            /\ IF pData # <<>>
               THEN pBatches' = Append(pBatches, pData) /\ pData' = <<>>
               ELSE UNCHANGED <<pBatches, pData>>
            /\ ppc' = "done"
            /\ UNCHANGED <<pTypes, pHasName, pHasTable, pRead>>
  /\ UNCHANGED <<castVars, cmpVars, uniqVars, zipVars, renderVars>>

NextPrint == PrintScan \/ PrintRead \/ PrintAfterPush \/ PrintEnd

----------------------------------------------------------------------------
(* The renderer: the lines print_partial prints *)

\* " ".repeat(n)
Spaces(n) == [i \in 1..n |-> " "]

\* the characters of a column name
NameText(name) ==
    CASE name = "n"   -> <<"n">>
      [] name = "s"   -> <<"s">>
      [] name = "t"   -> <<"t">>
      [] name = "b"   -> <<"b">>
      [] name = "o"   -> <<"o">>
      [] name = "num" -> <<"n", "u", "m">>
      [] OTHER        -> <<>>

\* ColumnType::len_or_0, ColumnType::val_or_empty
len_or_0(col) == IF col.name = NoName THEN 0 ELSE Len(NameText(col.name))
val_or_empty(col) == IF col.name = NoName THEN <<>> ELSE NameText(col.name)

\* Value::alignment
alignment(v) == IF v.tag \in {"Time", "Duration", "Integer"} THEN "Right" ELSE "Left"

\* a printed line: printer.line(text), called by a function whose indent
\* parameter is level; body is what the function put after the indentation
Line(level, kind, text, body) ==
    [level |-> level, kind |-> kind, text |-> text, body |-> body]

\* what a printing function has done: the lines printed, and whether it
\* returned (ok) or panicked
Printed(lines) == [lines |-> lines, ok |-> TRUE]
Panicked(lines) == [lines |-> lines, ok |-> FALSE]

\* one printing call after another; a panic ends the thread
Then(first, second) ==
    IF first.ok THEN [lines |-> first.lines \o second.lines, ok |-> second.ok]
    ELSE first

\* the columns of a nested table or stream whose type carries the schema
NestedTypes(schema) == [i \in 1..Len(schema) |-> Col("n", schema[i])]

\* the rows the nested tables and streams of the model hold: two rows of
\* integers under a schema of one integer column, no row otherwise
NestedRows(schema) ==
    IF schema = <<"Integer">> THEN << <<V("Integer", 7)>>, <<V("Integer", -8)>> >>
    ELSE <<>>

\* the bytes the binary values of the model hold: two lines of text, or a
\* byte that is no valid UTF-8
BinaryContent(b) == IF b = 0 THEN <<"a", "\n", "a">> ELSE <<InvalidByte>>

\* BufRead::read_line: the bytes up to and including the next line feed
RECURSIVE ReadLine(_)
ReadLine(bytes) ==
    IF bytes = <<>> THEN <<>>
    ELSE IF Head(bytes) = "\n" THEN <<"\n">>
    ELSE <<Head(bytes)>> \o ReadLine(Tail(bytes))

\* print_binary: one line per line of the content, its line feed stripped;
\* indent is not used; read_line(..).unwrap() panics on invalid UTF-8
RECURSIVE print_binary(_, _)
print_binary(bytes, indent) ==
    LET line == ReadLine(bytes)
        msg == IF line # <<>> /\ line[Len(line)] = "\n"
               THEN SubSeq(line, 1, Len(line) - 1) ELSE line
    IN  IF \E i \in 1..Len(line) : line[i] = InvalidByte THEN Panicked(<<>>)
        ELSE IF Len(line) = 0 THEN Printed(<<>>)
        ELSE Then(Printed(<<Line(indent, "binary", msg, msg)>>),
                  print_binary(SubSeq(bytes, Len(line) + 1, Len(bytes)), indent))

\* calculate_header_width
calculate_header_width(w, types, has_name) ==
    IF has_name THEN [idx \in 1..Len(w) |-> Max(w[idx], len_or_0(types[idx]))]
    ELSE w

\* calculate_body_width
RECURSIVE calculate_body_width(_, _)
calculate_body_width(w, data) ==
    IF data = <<>> THEN w
    ELSE calculate_body_width(
             [idx \in 1..Len(w) |-> Max(w[idx], Len(to_string(Head(data)[idx])))],
             Tail(data))

\* print_header: the text put after the indentation
RECURSIVE HeaderText(_, _, _)
HeaderText(w, types, idx) ==
    IF idx > Len(types) THEN <<>>
    ELSE val_or_empty(types[idx])
         \o (IF idx # Len(types)
             THEN Spaces(w[idx] - len_or_0(types[idx]) + 1) ELSE <<>>)
         \o HeaderText(w, types, idx + 1)

\* print_header
print_header(w, types, has_name, indent) ==
    IF has_name
    THEN Printed(<<Line(indent, "header",
                        Spaces(indent * 4) \o HeaderText(w, types, 1),
                        HeaderText(w, types, 1))>>)
    ELSE Printed(<<>>)

\* print_row: the text of the cell at idx and what goes with it; the last
\* column gets no padding
CellText(w, r, idx) ==
    LET cell == to_string(r[idx])
        is_last == idx = Len(r)
        spaces == IF is_last THEN <<>> ELSE Spaces(w[idx] - Len(cell))
    IN  IF alignment(r[idx]) = "Right"
        THEN spaces \o cell \o (IF ~is_last THEN <<" ">> ELSE <<>>)
        ELSE cell \o (IF ~is_last THEN spaces \o <<" ">> ELSE <<>>)

\* print_row: the text put after the indentation
RECURSIVE RowText(_, _, _)
RowText(w, r, idx) ==
    IF idx > Len(r) THEN <<>>
    ELSE CellText(w, r, idx) \o RowText(w, r, idx + 1)

\* print_row: the line of the row
print_row(w, r, indent) ==
    Printed(<<Line(indent, "row", Spaces(indent * 4) \o RowText(w, r, 1),
                   RowText(w, r, 1))>>)

\* print_row: the cells of a row queued as rows, outputs or binaries
Queued(r, tag) == SelectSeq(r, LAMBDA c : c.tag = tag)

RECURSIVE print_internal(_, _, _)
RECURSIVE print_partial(_, _, _, _)
RECURSIVE print_body(_, _, _)
RECURSIVE PrintNested(_, _)
RECURSIVE PrintBinaries(_, _)
RECURSIVE PrintBatches(_, _, _, _, _)

\* print_body: the queued tables, or streams, of a row, each printed by
\* print_internal one level deeper
PrintNested(cells, indent) ==
    IF cells = <<>> THEN Printed(<<>>)
    ELSE Then(print_internal(NestedTypes(Head(cells).val),
                             NestedRows(Head(cells).val), indent),
              PrintNested(Tail(cells), indent))

\* print_body: the queued binaries of a row
PrintBinaries(cells, indent) ==
    IF cells = <<>> THEN Printed(<<>>)
    ELSE Then(print_binary(BinaryContent(Head(cells).val), indent),
              PrintBinaries(Tail(cells), indent))

\* print_body: each row's line, then its tables, its streams and its
\* binaries at indent + 1
print_body(w, data, indent) ==
    IF data = <<>> THEN Printed(<<>>)
    ELSE LET r == Head(data)
         IN  Then(print_row(w, r, indent),
             Then(PrintNested(Queued(r, "Rows"), indent + 1),
             Then(PrintNested(Queued(r, "Stream"), indent + 1),
             Then(PrintBinaries(Queued(r, "BinaryReader"), indent + 1),
                  print_body(w, Tail(data), indent)))))

\* print_partial
print_partial(data, types, has_name, indent) ==
    LET w0 == [idx \in 1..Len(types) |-> 0]
        w1 == calculate_header_width(w0, types, has_name)
        w  == calculate_body_width(w1, data)
    IN  Then(print_header(w, types, has_name, indent), print_body(w, data, indent))

\* print_internal's loop on the rows a stream gives: the buffer is printed
\* when it is due, and what is left at the end
PrintBatches(types, rows, has_name, has_table, indent) ==
    IF rows = <<>> THEN Printed(<<>>)
    ELSE LET k == IF has_table THEN 1 ELSE Min(BatchSize, Len(rows))
         IN  Then(print_partial(SubSeq(rows, 1, k), types, has_name, indent),
                  PrintBatches(types, SubSeq(rows, k + 1, Len(rows)), has_name,
                               has_table, indent))

\* print_internal on a stream of the given schema and rows
print_internal(types, rows, indent) ==
    PrintBatches(types, rows, HasName(types), HasTable(types), indent)

\* the streams rendered: the schemas, and the cells a column of each type holds
RenderSchemas ==
    { <<Col("n", "Integer"), Col("s", "Text")>>,
      <<Col("s", "Text"), Col("num", "Integer")>>,
      <<Col(NoName, "Text"), Col(NoName, "Integer")>>,
      <<Col("t", "Rows"), Col("s", "Text")>>,
      <<Col("n", "Integer"), Col("o", "Stream")>>,
      <<Col("s", "Text"), Col("b", "BinaryReader")>> }

RenderCells(tag) ==
    CASE tag = "Integer"      -> {V("Integer", 7), V("Integer", -8)}
      [] tag = "Text"         -> {V("Text", <<"a">>), V("Text", <<"a", "a">>)}
      [] tag = "Rows"         -> {V("Rows", <<"Integer">>), V("Rows", <<>>)}
      [] tag = "Stream"       -> {V("Stream", <<"Integer">>)}
      [] tag = "BinaryReader" -> {V("BinaryReader", 0), V("BinaryReader", 1)}

RenderRows(types) ==
    {<<a, b>> : a \in RenderCells(types[1].cell_type),
                b \in RenderCells(types[2].cell_type)}

NothingPrinted == [lines |-> <<>>, ok |-> TRUE]

RenderIdle == rpc = "idle" /\ rTypes = <<>> /\ rRows = <<>> /\ rOut = NothingPrinted

InitRender == /\ rpc = "start"
              /\ rTypes \in RenderSchemas
              /\ rRows \in SeqsUpTo(RenderRows(rTypes), MaxRenderRows)
              /\ rOut = NothingPrinted

\* print: print_internal(printer, stream, 0) on the whole stream
RenderStream == /\ rpc = "start"
                /\ rOut' = print_internal(rTypes, rRows, 0)
                /\ rpc' = IF print_internal(rTypes, rRows, 0).ok THEN "done" ELSE "panic"
                /\ UNCHANGED <<rTypes, rRows>>
  /\ UNCHANGED <<castVars, cmpVars, uniqVars, zipVars, printVars>>

NextRender == RenderStream

----------------------------------------------------------------------------
(* Specifications: each exercises one part, the others idle *)

StartCast == InitCast /\ CmpIdle /\ UniqIdle /\ ZipIdle /\ PrintIdle /\ RenderIdle
StartCmp == CastIdle /\ InitCmp /\ UniqIdle /\ ZipIdle /\ PrintIdle /\ RenderIdle
StartUniq == CastIdle /\ CmpIdle /\ InitUniq /\ ZipIdle /\ PrintIdle /\ RenderIdle
StartZip == CastIdle /\ CmpIdle /\ UniqIdle /\ InitZip /\ PrintIdle /\ RenderIdle
StartPrint == CastIdle /\ CmpIdle /\ UniqIdle /\ ZipIdle /\ InitPrint /\ RenderIdle
StartRender == CastIdle /\ CmpIdle /\ UniqIdle /\ ZipIdle /\ PrintIdle /\ InitRender

SpecCast == StartCast /\ [][NextCast]_vars

SpecCmp == StartCmp /\ [][NextCmp]_vars

SpecUniq == StartUniq /\ [][NextUniq]_vars

SpecZip == StartZip /\ [][NextZip]_vars

SpecPrint == StartPrint /\ [][NextPrint]_vars

SpecRender == StartRender /\ [][NextRender]_vars

Init == StartCast \/ StartCmp \/ StartUniq \/ StartZip \/ StartPrint \/ StartRender

Next == NextCast \/ NextCmp \/ NextUniq \/ NextZip \/ NextPrint \/ NextRender

Spec == Init /\ [][Next]_vars

----------------------------------------------------------------------------
(* Properties *)

\* the same variant with the same payload
SameValue(a, b) == a.tag = b.tag /\ a.val = b.val

SameRow(r1, r2) == Len(r1) = Len(r2) /\ \A i \in 1..Len(r1) : SameValue(r1[i], r2[i])

\* positions of the input rows whose key equals the key of no earlier row
FirstOccurrences(rows, idx) ==
    {i \in 1..Len(rows) :
        \A j \in 1..(i - 1) : ~KeyEq(KeyOf(rows[j], idx), KeyOf(rows[i], idx), idx)}

\* the positions of a send log, in order, and as a set
RECURSIVE Ascending(_)
Ascending(log) == Len(log) < 2 \/ (log[1].i < log[2].i /\ Ascending(Tail(log)))

LogPositions(log) == {log[n].i : n \in 1..Len(log)}

\* C1: when uniq has finished, the rows it sent are, in input order, exactly
\* the input rows whose key equals the key of no earlier input row, and the
\* output schema is the input schema.
C1_UniqKeepsFirstOccurrences ==
    upc = "done" =>
        /\ Ascending(uLog)
        /\ LogPositions(uLog) = FirstOccurrences(uAll, uIdx)
        /\ uOutType = uTypes

\* C2: when zip has finished with every send successful, the output schema
\* is first's columns then second's, min(|A|,|B|) rows were emitted, and the
\* i-th is A's i-th row followed by B's i-th row.
C2_ZipPairsInLockStep ==
    zpc = "done" =>
        /\ zOutType = ZipTypesA \o ZipTypesB
        /\ Len(zOut) = Min(zLenA, zLenB)
        /\ \A i \in 1..Len(zOut) : SameRow(zOut[i], ZipRowA(i) \o ZipRowB(i))

C2_Witness == zpc = "done" /\ zLenA = 3 /\ zLenB = 2 /\ Len(zOut) = 2 /\ zSecond = <<>>

\* C3: once a read of the first input has reported end-of-stream, zip is
\* never waiting on a second input that has no row and is not closed.
C3_ZipNeverWaitsAfterFirstEnds ==
    ~(zpc = "read2" /\ zR1.st = "Err" /\ zSecond = <<>> /\ ~zSecondClosed)

\* C4: a failed send makes zip return the error at once; after it has
\* returned an error zip reads nothing and sends nothing; and every row
\* emitted is a complete concatenated row.
C4_ZipSendFailureIsFatal ==
    /\ [](/\ zSendFailed => zpc = "failed"
          /\ \A i \in 1..Len(zOut) : SameRow(zOut[i], ZipRowA(i) \o ZipRowB(i)))
    /\ [][zpc = "failed" =>
             zpc' = "failed" /\ UNCHANGED <<zReads1, zReads2, zSends, zOut>>]_vars

C4_Witness == zpc = "failed" /\ zSendFailed /\ Len(zOut) = 1 /\ zSends = 2

\* the rows of the input at the positions of the log entries that went as ok
RECURSIVE LoggedRows(_, _, _)
LoggedRows(log, rows, ok) ==
    IF log = <<>> THEN <<>>
    ELSE (IF log[1].ok = ok THEN <<rows[log[1].i]>> ELSE <<>>)
         \o LoggedRows(Tail(log), rows, ok)

\* C5: each failed send is reported to the printer exactly once, for its
\* row; after a failed send uniq neither returns an error nor aborts, it
\* goes on as long as the input lasts (a turn of the loop is possible unless
\* the input is empty and still open) and ends with Ok(()), having read the
\* whole input and sent, or tried to, every row whose key no earlier row had.
C5_UniqToleratesFailedSends ==
    /\ Len(uReports) = Len(LoggedRows(uLog, uAll, FALSE))
    /\ \A n \in 1..Len(uReports) : SameRow(uReports[n], LoggedRows(uLog, uAll, FALSE)[n])
    /\ uReports # <<>> =>
          \/ upc = "done"
          \/ upc = "run" /\ (uInput # <<>> => ENABLED UniqRunStep)
                         /\ (uInput = <<>> /\ uClosed => ENABLED UniqRunEnd)
    /\ upc = "done" =>
          /\ uInput = <<>>
          /\ FirstOccurrences(uAll, uIdx) \subseteq LogPositions(uLog)

C5_Witness == upc = "done" /\ Len(uLog) = 3 /\ uLog[1].ok /\ ~uLog[2].ok
              /\ Len(uReports) = 2

\* C6: two hashable values that are equal have the same hash.
C6_EqualValuesHashAlike ==
    kpc = "hashed" /\ kEq => SameHash(kHashA, kHashB)

\* the (source, destination) pairs for which cast has an arm
CastArms ==
    {<<"Text", d>> : d \in {"File", "Glob", "Integer", "Field", "Op", "Regex", "Type"}}
    \cup {<<"File", d>> : d \in {"Text", "Glob", "Integer", "Op", "Regex"}}
    \cup {<<"Glob", d>> : d \in {"Text", "File", "Integer", "Op", "Regex"}}
    \cup {<<"Regex", d>> : d \in {"File", "Glob", "Integer", "Text", "Op"}}
    \cup {<<"Integer", d>> : d \in {"Text", "File", "Glob", "Field", "Op", "Regex"}}
    \cup {<<"Type", "Text">>}

\* a supported conversion: to the own type, or one cast has an arm for
Supported(s, d) == s = d \/ (s.sub = <<>> /\ d.sub = <<>> /\ <<s.tag, d.tag>> \in CastArms)

IsCanonicalDecimal(s) ==
    LET body == IF s # <<>> /\ Head(s) = "-" THEN Tail(s) ELSE s
    IN  /\ body # <<>>
        /\ \A i \in 1..Len(body) : IsDigit(body[i])
        /\ (body[1] = "0" => s = <<"0">>)

IsDecimalText(s) ==
    \/ Len(s) >= 1 /\ \A i \in 1..Len(s) : IsDigit(s[i])
    \/ Len(s) >= 2 /\ s[1] \in {"+", "-"} /\ \A i \in 2..Len(s) : IsDigit(s[i])

\* the conversion table as the specification lists it, a two-way arrow read
\* as both directions
ListedPairs ==
    CastArms \cup {<<"Op", "File">>, <<"Op", "Glob">>}

\* C8: a cast to the own type returns the value; a text casts to glob, file,
\* field and operator for every text, and to integer exactly when it is a
\* decimal integer, an error being returned otherwise; a pair outside the
\* table returns an error.
C8_CastTotality ==
    cpc \in {"cast", "back"} =>
        /\ value_type(cIn) = cTo => cRes.ok /\ SameValue(cRes.val, cIn)
        /\ (cIn.tag = "Text" /\ cTo.sub = <<>> /\ cTo.tag \in {"Glob", "File", "Field", "Op"})
              => cRes.ok /\ value_type(cRes.val) = cTo
        /\ (cIn.tag = "Text" /\ cTo = T("Integer"))
              => /\ cRes.ok <=> IsDecimalText(cIn.val)
                 /\ cRes.ok => cRes.val.tag = "Integer"
                 /\ ~cRes.ok => cRes.err = "parse"
        /\ (value_type(cIn) # cTo
            /\ (cTo.sub # <<>> \/ <<value_type(cIn).tag, cTo.tag>> \notin ListedPairs))
              => ~cRes.ok /\ cRes.err = "Unimplemented conversion"

C8_Witness == cpc = "cast" /\ cIn.tag = "Text" /\ cIn.val = <<"7", "a">>
              /\ cTo = T("Integer") /\ ~cRes.ok

\* C9: two streams, two closures or two commands are incomparable.
C9_StreamsClosuresCommandsIncomparable ==
    (kpc \in {"ord", "hashed", "panic"} /\ kA.tag = kB.tag
     /\ kA.tag \in {"Stream", "Closure", "Command"})
        => kOrd = "None"

RECURSIVE Flatten(_)
Flatten(batches) == IF batches = <<>> THEN <<>>
                    ELSE Head(batches) \o Flatten(Tail(batches))

C11_LinesIndentedByLevel ==
    \A i \in 1..Len(rOut.lines) :
        rOut.lines[i].text = Spaces(4 * rOut.lines[i].level) \o rOut.lines[i].body

\* the rows of the batch the k-th row of a stream is printed in
BatchOf(rows, k, has_table) ==
    IF has_table THEN <<rows[k]>>
    ELSE SubSeq(rows, ((k - 1) \div 49) * 49 + 1, Min(Len(rows), ((k - 1) \div 49) * 49 + 49))

\* the width of column idx in a batch: the longest of the header label, when
\* a header is printed, and the rendered cells of the column
RECURSIVE LongestCell(_, _)
LongestCell(batch, idx) ==
    IF batch = <<>> THEN 0
    ELSE Max(Len(to_string(Head(batch)[idx])), LongestCell(Tail(batch), idx))

ColumnWidth(types, batch, idx) ==
    Max(IF HasName(types) /\ types[idx].name # NoName THEN Len(NameText(types[idx].name))
        ELSE 0,
        LongestCell(batch, idx))

\* a row as the claim has it: integer, time and duration cells after
\* (width - length) spaces in every column, the other cells before their
\* padding (none after the last column), one space between columns
RECURSIVE AlignedRow(_, _, _, _)
AlignedRow(types, batch, r, idx) ==
    IF idx > Len(r) THEN <<>>
    ELSE LET cell == to_string(r[idx])
             pad == Spaces(ColumnWidth(types, batch, idx) - Len(cell))
         IN  (IF r[idx].tag \in {"Integer", "Time", "Duration"} THEN pad \o cell
              ELSE IF idx = Len(r) THEN cell
              ELSE cell \o pad)
             \o (IF idx = Len(r) THEN <<>> ELSE <<" ">>)
             \o AlignedRow(types, batch, r, idx + 1)

\* the lines of the rows of the stream itself, in the order printed
TopRowLines == SelectSeq(rOut.lines, LAMBDA l : l.kind = "row" /\ l.level = 0)

\* C12: the line of every row of the stream is the row with its integer,
\* time and duration cells right-aligned in every column, the last included,
\* and its other cells left-aligned, under the widths of the row's batch.
C12_RightAlignedInEveryColumn ==
    \A k \in 1..Len(TopRowLines) :
        TopRowLines[k].text = AlignedRow(rTypes, BatchOf(rRows, k, HasTable(rTypes)), rRows[k], 1)

\* C13: uniq never reaches the hash of a key that holds an unhashable
\* value: running uniq never ends in the panic of Value's hash.
C13_UniqNeverHashesUnhashableKey == upc # "panic"

\* the hashable variants other than file
ReflexiveTags == {"Text", "Integer", "Time", "Duration", "Field", "Glob", "Regex", "Op",
                  "Bool", "Type", "Empty"}

\* C14: a value of a hashable variant other than file equals itself; and
\* uniq with a selector on a column of such keys, all the same, sends
\* exactly one row.
C14_EqReflexiveOnHashable ==
    /\ (kpc \notin {"idle", "start"} /\ kA.tag \in ReflexiveTags /\ SameValue(kA, kB)) => kEq
    /\ (/\ upc = "done" /\ uIdx # 0 /\ uAll # <<>>
        /\ uAll[1][uIdx].tag \in ReflexiveTags
        /\ \A i \in 1..Len(uAll) : SameValue(uAll[i][uIdx], uAll[1][uIdx]))
       => Len(uLog) = 1

====
